---- MODULE Spec2Model ----
(***************************************************************************)
(* A model of backend/app/storage/json_data_model.py: the Book entity      *)
(* (field validators, extract_metadata, get_all_metadata), BookCollection   *)
(* and the EntityTypeRegistry.                                              *)
(*                                                                          *)
(* Python values are tagged records [t, s, n, l]:                           *)
(*   t = "none" | "str" | "int" | "float" | "inf" | "nan" | "bool" |        *)
(*       "list" | "dict" | "date"                                           *)
(*   s : the characters of a str (a sequence of one-character strings)      *)
(*   n : an int; a float in tenths (37 is 3.7); the sign of an infinity;    *)
(*       1/0 for a bool; y*10000 + m*100 + d for a datetime.date            *)
(*   l : the items of a list; the keys and values of a dict, alternating    *)
(***************************************************************************)
EXTENDS Integers, Sequences, FiniteSets, TLC

(***************************************************************************)
(* Bounds of the model.                                                     *)
(***************************************************************************)
MaxKeys == 2        \* keys of a raw book record
MaxStrLen == 3      \* length of the generated strings given to the pages normalizer
MaxBooks == 2       \* elements of a "books" array
MaxRegs == 2        \* register_entity_class / register_collection_class calls after import
MaxRules == 3       \* length of the detection-rule list
MaxInt == 12        \* largest magnitude of the numbers given to the pages normalizer

VARIABLES
    entity_classes,      \* EntityTypeRegistry._entity_classes: insertion-ordered name/class entries
    collection_classes,  \* EntityTypeRegistry._collection_classes
    detection_rules,     \* EntityTypeRegistry._detection_rules
    op,                  \* the last registry operation called, its arguments and return value
    regs,                \* number of class registrations made after import
    firstAt,             \* history: collection class -> index of the first call that registered it
    lastEntity,          \* history: name -> entity class of the most recent registration
    lastCollection,      \* history: name -> collection class of the most recent registration
    raw,                 \* the raw record given to Book(...) / the raw value given to a normalizer
    pc,                  \* position of the parsing run
    book,                \* the outcome of Book construction
    metadata,            \* the mapping returned by get_all_metadata
    pages_in,            \* the value given to handle_pages_field
    pages_out,           \* the outcome of handle_pages_field
    doc,                 \* the top-level object given to BookCollection(...)
    collection,          \* the outcome of BookCollection construction
    entities             \* the sequence returned by get_entities

vars == <<entity_classes, collection_classes, detection_rules, op, regs, firstAt,
          lastEntity, lastCollection, raw, pc, book, metadata, pages_in, pages_out, doc,
          collection, entities>>

registryVars == <<entity_classes, collection_classes, detection_rules, op, regs, firstAt,
                  lastEntity, lastCollection>>
bookVars == <<raw, pc, book, metadata, pages_in, pages_out>>
collectionVars == <<doc, collection, entities>>

(***************************************************************************)
(* Python values.                                                           *)
(***************************************************************************)
None == [t |-> "none", s |-> <<>>, n |-> 0, l |-> <<>>]
Str(chars) == [t |-> "str", s |-> chars, n |-> 0, l |-> <<>>]
PyInt(i) == [t |-> "int", s |-> <<>>, n |-> i, l |-> <<>>]
Float(tenths) == [t |-> "float", s |-> <<>>, n |-> tenths, l |-> <<>>]
Inf(sign) == [t |-> "inf", s |-> <<>>, n |-> sign, l |-> <<>>]
NaN == [t |-> "nan", s |-> <<>>, n |-> 0, l |-> <<>>]
Bool(b) == [t |-> "bool", s |-> <<>>, n |-> IF b THEN 1 ELSE 0, l |-> <<>>]
List(items) == [t |-> "list", s |-> <<>>, n |-> 0, l |-> items]
Dict(kvs) == [t |-> "dict", s |-> <<>>, n |-> 0, l |-> kvs]
Date(y, m, d) == [t |-> "date", s |-> <<>>, n |-> y * 10000 + m * 100 + d, l |-> <<>>]

isinstance_str(v) == v.t = "str"

\* bool(v): Python truth value testing
Truthy(v) ==
    CASE v.t = "none" -> FALSE
      [] v.t = "str" -> v.s # <<>>
      [] v.t \in {"int", "float", "bool"} -> v.n # 0
      [] v.t \in {"list", "dict"} -> v.l # <<>>
      [] OTHER -> TRUE

(***************************************************************************)
(* str methods and the regular expressions the validators use.              *)
(***************************************************************************)
IsSpace(c) == c \in {" ", "\t", "\n"}

RECURSIVE lstrip(_)
lstrip(s) == IF s # <<>> /\ IsSpace(Head(s)) THEN lstrip(Tail(s)) ELSE s

RECURSIVE rstrip(_)
rstrip(s) ==
    IF s # <<>> /\ IsSpace(s[Len(s)]) THEN rstrip(SubSeq(s, 1, Len(s) - 1)) ELSE s

\* str.strip()
strip(s) == rstrip(lstrip(s))

\* re.sub(r"\s+", " ", s)
RECURSIVE sub_spaces(_)
sub_spaces(s) ==
    IF s = <<>> THEN <<>>
    ELSE IF IsSpace(Head(s)) THEN <<" ">> \o sub_spaces(lstrip(s))
    ELSE <<Head(s)>> \o sub_spaces(Tail(s))

\* re.split(r"[,;]", s), given the piece read so far
RECURSIVE re_split(_, _)
re_split(s, piece) ==
    IF s = <<>> THEN <<piece>>
    ELSE IF Head(s) \in {",", ";"} THEN <<piece>> \o re_split(Tail(s), <<>>)
    ELSE re_split(Tail(s), Append(piece, Head(s)))

\* s.split(sep) for a one-character separator
RECURSIVE split_on(_, _, _)
split_on(s, sep, piece) ==
    IF s = <<>> THEN <<piece>>
    ELSE IF Head(s) = sep THEN <<piece>> \o split_on(Tail(s), sep, <<>>)
    ELSE split_on(Tail(s), sep, Append(piece, Head(s)))

Digits == <<"0", "1", "2", "3", "4", "5", "6", "7", "8", "9">>
IsDigit(c) == \E i \in 1..10 : Digits[i] = c
DigitVal(c) == (CHOOSE i \in 1..10 : Digits[i] = c) - 1
AllDigits(s) == s # <<>> /\ \A i \in 1..Len(s) : IsDigit(s[i])

RECURSIVE DigitsVal(_)
DigitsVal(s) ==
    IF s = <<>> THEN 0 ELSE DigitsVal(SubSeq(s, 1, Len(s) - 1)) * 10 + DigitVal(s[Len(s)])

RECURSIVE NatToStr(_)
NatToStr(i) ==
    IF i < 10 THEN <<Digits[i + 1]>> ELSE NatToStr(i \div 10) \o <<Digits[(i % 10) + 1]>>

IntToStr(i) == IF i < 0 THEN <<"-">> \o NatToStr(-i) ELSE NatToStr(i)

\* zero-padded to two digits, as date.isoformat() writes month and day
Pad2(i) == IF i < 10 THEN <<"0">> \o NatToStr(i) ELSE NatToStr(i)

RECURSIVE Pad4(_)
Pad4(s) == IF Len(s) < 4 THEN Pad4(<<"0">> \o s) ELSE s

Abs(i) == IF i < 0 THEN -i ELSE i

\* repr of a str without quote characters
ReprStr(s) ==
    LET RECURSIVE esc(_)
        esc(x) ==
            IF x = <<>> THEN <<>>
            ELSE (CASE Head(x) = "\t" -> <<"\\", "t">>
                    [] Head(x) = "\n" -> <<"\\", "n">>
                    [] OTHER -> <<Head(x)>>) \o esc(Tail(x))
    IN <<"'">> \o esc(s) \o <<"'">>

\* str(v) of a scalar, which is also its repr unless it is a str
ScalarStr(v) ==
    CASE v.t = "none" -> <<"N", "o", "n", "e">>
      [] v.t = "str" -> v.s
      [] v.t = "int" -> IntToStr(v.n)
      [] v.t = "float" ->
            (IF v.n < 0 THEN <<"-">> ELSE <<>>) \o NatToStr(Abs(v.n) \div 10)
                \o <<".">> \o NatToStr(Abs(v.n) % 10)
      [] v.t = "inf" -> IF v.n < 0 THEN <<"-", "i", "n", "f">> ELSE <<"i", "n", "f">>
      [] v.t = "nan" -> <<"n", "a", "n">>
      [] v.t = "bool" -> IF v.n = 1 THEN <<"T", "r", "u", "e">> ELSE <<"F", "a", "l", "s", "e">>
      [] v.t = "date" ->
            Pad4(NatToStr(v.n \div 10000)) \o <<"-">> \o Pad2((v.n \div 100) % 100)
                \o <<"-">> \o Pad2(v.n % 100)
      [] OTHER -> <<"?">>

ScalarRepr(v) == IF v.t = "str" THEN ReprStr(v.s) ELSE ScalarStr(v)

\* ", ".join of the reprs of the items of a list
RECURSIVE JoinReprs(_)
JoinReprs(items) ==
    IF items = <<>> THEN <<>>
    ELSE IF Len(items) = 1 THEN ScalarRepr(items[1])
    ELSE ScalarRepr(items[1]) \o <<",", " ">> \o JoinReprs(Tail(items))

\* "k: v, k: v" of a dict's entries
RECURSIVE JoinEntries(_)
JoinEntries(kvs) ==
    IF Len(kvs) < 2 THEN <<>>
    ELSE ScalarRepr(kvs[1]) \o <<":", " ">> \o ScalarRepr(kvs[2])
            \o (IF Len(kvs) > 2 THEN <<",", " ">> ELSE <<>>) \o JoinEntries(SubSeq(kvs, 3, Len(kvs)))

\* str(v)
PyStr(v) ==
    CASE v.t = "list" -> <<"[">> \o JoinReprs(v.l) \o <<"]">>
      [] v.t = "dict" -> <<"{">> \o JoinEntries(v.l) \o <<"}">>
      [] OTHER -> ScalarStr(v)

(***************************************************************************)
(* Built-in conversions.  An outcome is a returned value or the exception   *)
(* raised: exc = "none" when the call returns.                              *)
(***************************************************************************)
Returns(v) == [exc |-> "none", val |-> v]
Raises(e) == [exc |-> e, val |-> None]

\* the text of an int literal: optional sign, then digits
IsIntLiteral(s) ==
    IF s # <<>> /\ Head(s) \in {"+", "-"} THEN AllDigits(Tail(s)) ELSE AllDigits(s)

IntLiteralVal(s) ==
    IF Head(s) = "-" THEN -DigitsVal(Tail(s))
    ELSE IF Head(s) = "+" THEN DigitsVal(Tail(s))
    ELSE DigitsVal(s)

\* int(v): truncates a float towards zero; ValueError for text that is no int literal
\* and for nan; OverflowError for an infinity; TypeError for None and containers
builtin_int(v) ==
    CASE v.t \in {"int", "bool"} -> Returns(PyInt(v.n))
      [] v.t = "float" -> Returns(PyInt(IF v.n < 0 THEN -((-v.n) \div 10) ELSE v.n \div 10))
      [] v.t = "inf" -> Raises("OverflowError")
      [] v.t = "nan" -> Raises("ValueError")
      [] v.t = "str" ->
            IF IsIntLiteral(strip(v.s)) THEN Returns(PyInt(IntLiteralVal(strip(v.s))))
            ELSE Raises("ValueError")
      [] OTHER -> Raises("TypeError")

\* the text of a float literal, to one fractional digit: [sign] digits [. digits]
IsFloatLiteral(s) ==
    LET u == IF s # <<>> /\ Head(s) \in {"+", "-"} THEN Tail(s) ELSE s
        parts == split_on(u, ".", <<>>)
    IN \/ Len(parts) = 1 /\ AllDigits(parts[1])
       \/ /\ Len(parts) = 2
          /\ parts[1] = <<>> \/ AllDigits(parts[1])
          /\ parts[2] = <<>> \/ AllDigits(parts[2])
          /\ parts[1] # <<>> \/ parts[2] # <<>>

FloatLiteralVal(s) ==
    LET neg == Head(s) = "-"
        u == IF Head(s) \in {"+", "-"} THEN Tail(s) ELSE s
        parts == split_on(u, ".", <<>>)
        whole == DigitsVal(parts[1])
        frac == IF Len(parts) = 2 /\ parts[2] # <<>> THEN DigitVal(parts[2][1]) ELSE 0
        tenths == whole * 10 + frac
    IN IF neg THEN -tenths ELSE tenths

\* float(v)
builtin_float(v) ==
    CASE v.t \in {"int", "bool"} -> Returns(Float(v.n * 10))
      [] v.t \in {"float", "inf", "nan"} -> Returns(v)
      [] v.t = "str" ->
            LET u == strip(v.s)
            IN CASE IsFloatLiteral(u) -> Returns(Float(FloatLiteralVal(u)))
                 [] u \in {<<"i", "n", "f">>, <<"+", "i", "n", "f">>} -> Returns(Inf(1))
                 [] u = <<"-", "i", "n", "f">> -> Returns(Inf(-1))
                 [] u \in {<<"n", "a", "n">>, <<"-", "n", "a", "n">>} -> Returns(NaN)
                 [] OTHER -> Raises("ValueError")
      [] OTHER -> Raises("TypeError")

IsLeap(y) == y % 4 = 0 /\ (y % 100 # 0 \/ y % 400 = 0)

DaysIn(y, m) ==
    IF m = 2 THEN (IF IsLeap(y) THEN 29 ELSE 28)
    ELSE IF m \in {4, 6, 9, 11} THEN 30 ELSE 31

\* the directives of _strptime: %Y is \d\d\d\d, %m is 1[0-2]|0[1-9]|[1-9],
\* %d is 3[01]|[12]\d|0[1-9]|[1-9]| [1-9]
MatchesY(s) == Len(s) = 4 /\ AllDigits(s)
MatchesM(s) == Len(s) \in {1, 2} /\ AllDigits(s) /\ DigitsVal(s) \in 1..12
MatchesD(s) ==
    \/ Len(s) \in {1, 2} /\ AllDigits(s) /\ DigitsVal(s) \in 1..31
    \/ Len(s) = 2 /\ s[1] = " " /\ IsDigit(s[2]) /\ s[2] # "0"
DVal(s) == IF s[1] = " " THEN DigitVal(s[2]) ELSE DigitsVal(s)

\* datetime.strptime(s, fmt).date() for the three formats tried, fmt given as the
\* separator and the positions of year, month and day; ValueError when the text does
\* not match or the day is out of range for the month
strptime_date(s, sep, iy, im, id) ==
    LET parts == split_on(s, sep, <<>>)
    IN IF /\ Len(parts) = 3
          /\ MatchesY(parts[iy]) /\ MatchesM(parts[im]) /\ MatchesD(parts[id])
          /\ DigitsVal(parts[iy]) >= 1
          /\ DVal(parts[id]) <= DaysIn(DigitsVal(parts[iy]), DigitsVal(parts[im]))
       THEN Returns(Date(DigitsVal(parts[iy]), DigitsVal(parts[im]), DVal(parts[id])))
       ELSE Raises("ValueError")

(***************************************************************************)
(* Book: the field validators (mode="before").                              *)
(***************************************************************************)
handle_string_fields(v) ==
    IF v.t = "none" \/ (isinstance_str(v) /\ v.s = <<>>)
          \/ (isinstance_str(v) /\ strip(v.s) = <<>>)
    THEN Returns(None)
    ELSE IF isinstance_str(v)
    THEN LET normalized == sub_spaces(strip(v.s))
         IN Returns(IF normalized # <<>> THEN Str(normalized) ELSE None)
    ELSE Returns(Str(PyStr(v)))

\* [f(x) for x in items if f(x)] with f the stripped text of an item
RECURSIVE StrippedNonEmpty(_)
StrippedNonEmpty(texts) ==
    IF texts = <<>> THEN <<>>
    ELSE (IF strip(Head(texts)) # <<>> THEN <<Str(strip(Head(texts)))>> ELSE <<>>)
            \o StrippedNonEmpty(Tail(texts))

handle_authors_field(v) ==
    CASE v.t = "none" -> Returns(List(<<>>))
      [] v.t = "str" -> Returns(List(StrippedNonEmpty(re_split(v.s, <<>>))))
      [] v.t = "list" ->
            Returns(List(StrippedNonEmpty([i \in 1..Len(v.l) |-> PyStr(v.l[i])])))
      [] OTHER -> Returns(List(StrippedNonEmpty(<<PyStr(v)>>)))

handle_pages_field(v) ==
    IF v.t = "none" \/ (v.t = "str" /\ v.s = <<>>) THEN Returns(None)
    ELSE LET pages == builtin_int(v)
         IN CASE pages.exc = "none" -> Returns(IF pages.val.n > 0 THEN pages.val ELSE None)
              [] pages.exc \in {"ValueError", "TypeError"} -> Returns(None)
              [] OTHER -> Raises(pages.exc)

\* x >= 0 for a float
FloatGeqZero(x) == (x.t = "float" /\ x.n >= 0) \/ (x.t = "inf" /\ x.n > 0)

handle_price_field(v) ==
    IF v.t = "none" \/ (v.t = "str" /\ v.s = <<>>) THEN Returns(None)
    ELSE LET price == builtin_float(v)
         IN CASE price.exc = "none" -> Returns(IF FloatGeqZero(price.val) THEN price.val ELSE None)
              [] price.exc \in {"ValueError", "TypeError"} -> Returns(None)
              [] OTHER -> Raises(price.exc)

handle_publication_date_field(v) ==
    IF v.t = "none" \/ (v.t = "str" /\ v.s = <<>>) THEN Returns(None)
    ELSE IF v.t = "date" THEN Returns(v)
    ELSE IF isinstance_str(v)
    THEN LET u == strip(v.s)
             iso == strptime_date(u, "-", 1, 2, 3)
             ymd == strptime_date(u, "/", 1, 2, 3)
             mdy == strptime_date(u, "/", 3, 1, 2)
         IN CASE iso.exc = "none" -> iso
              [] ymd.exc = "none" -> ymd
              [] mdy.exc = "none" -> mdy
              [] OTHER -> Returns(Str(u))
    ELSE Returns(Str(PyStr(v)))

(***************************************************************************)
(* Book: the fields, extract_metadata and construction.                     *)
(*                                                                          *)
(* A raw record is [kind, m, v]: kind = "mapping" with m the dict (a         *)
(* function from keys to values), or kind = "other" with v the value that   *)
(* is no dict.                                                              *)
(***************************************************************************)
EmptyMap == [k \in {} |-> None]
Mapping(m) == [kind |-> "mapping", m |-> m, v |-> None]
NotMapping(v) == [kind |-> "other", m |-> EmptyMap, v |-> v]

\* d[k] = v
Put(d, k, v) == [x \in DOMAIN d \cup {k} |-> IF x = k THEN v ELSE d[x]]

\* a.update(b)
Update(a, b) == [x \in DOMAIN a \cup DOMAIN b |-> IF x \in DOMAIN b THEN b[x] ELSE a[x]]

UntitledBook == <<"U", "n", "t", "i", "t", "l", "e", "d", " ", "B", "o", "o", "k">>

core_fields ==
    {"name", "title", "authors", "isbn", "publication_date", "pages", "price",
     "description", "cover_image_url", "purchase_url", "publisher", "genre",
     "language", "format"}

\* the declared fields of Book, in declaration order (raw_metadata apart)
BookFields ==
    <<"name", "title", "authors", "isbn", "publication_date", "pages", "price",
      "description", "cover_image_url", "purchase_url", "publisher", "genre",
      "language", "format">>

StringFields ==
    {"name", "title", "description", "isbn", "cover_image_url", "purchase_url",
     "publisher", "genre", "language", "format"}

\* Field(default=...)
FieldDefault(f) ==
    CASE f = "name" -> Str(UntitledBook)
      [] f = "authors" -> List(<<>>)
      [] OTHER -> None

\* the annotation of each field, checked on what its validator returns
FieldTypeOk(f, v) ==
    CASE f = "name" -> v.t = "str"
      [] f = "authors" -> v.t = "list" /\ \A i \in 1..Len(v.l) : v.l[i].t = "str"
      [] f = "publication_date" -> v.t \in {"date", "str", "none"}
      [] f = "pages" -> v.t \in {"int", "none"}
      [] f = "price" -> v.t \in {"float", "inf", "nan", "none"}
      [] OTHER -> v.t \in {"str", "none"}

\* the mode="before" validator registered for each field
FieldValidator(f, v) ==
    CASE f \in StringFields -> handle_string_fields(v)
      [] f = "authors" -> handle_authors_field(v)
      [] f = "pages" -> handle_pages_field(v)
      [] f = "price" -> handle_price_field(v)
      [] f = "publication_date" -> handle_publication_date_field(v)

OverflowKeysUnfiltered(data) == DOMAIN data

\* the keys of data the loop puts into raw_metadata
OverflowKeys(data) == DOMAIN data \ core_fields

\* the title/name step of extract_metadata
ReconcileName(data) ==
    IF "title" \in DOMAIN data /\ Truthy(data["title"])
    THEN Put(data, "name", data["title"])
    ELSE IF "name" \notin DOMAIN data \/ ~Truthy(data["name"])
    THEN Put(data, "name", Str(UntitledBook))
    ELSE data

\* extract_metadata on a dict: processed_data, its "raw_metadata" entry kept apart
extract_metadata(data) ==
    [fields |-> ReconcileName(data),
     raw_metadata |-> [k \in OverflowKeys(data) |-> data[k]]]

NoBook == [status |-> "none", f |-> EmptyMap, raw_metadata |-> EmptyMap]
FailedBook(e) == [status |-> e, f |-> EmptyMap, raw_metadata |-> EmptyMap]

\* Book(**record) / Book.model_validate(record): the model validator, then each field's
\* validator and annotation; an exception a validator lets out ends construction
BookConstruct(record) ==
    IF record.kind # "mapping" THEN FailedBook("ValidationError")
    ELSE LET p == extract_metadata(record.m)
             out == [f \in core_fields |->
                        IF f \in DOMAIN p.fields THEN FieldValidator(f, p.fields[f])
                        ELSE Returns(FieldDefault(f))]
             raised == {i \in 1..Len(BookFields) : out[BookFields[i]].exc # "none"}
             first == CHOOSE i \in raised : \A j \in raised : i <= j
         IN IF raised # {} THEN FailedBook(out[BookFields[first]].exc)
            ELSE IF \E f \in core_fields : ~FieldTypeOk(f, out[f].val)
            THEN FailedBook("ValidationError")
            ELSE [status |-> "ok",
                  f |-> [f \in core_fields |-> out[f].val],
                  raw_metadata |-> p.raw_metadata]

MetadataFieldsWithNavigation ==
    {"title", "authors", "isbn", "publication_date", "pages", "price", "description",
     "cover_image_url", "purchase_url", "publisher", "genre", "language", "format"}

\* the core fields get_all_metadata reports
MetadataFields ==
    {"title", "authors", "isbn", "publication_date", "pages", "price", "description",
     "cover_image_url", "purchase_url"}

get_all_metadata(b) ==
    LET shown == {f \in MetadataFields :
                     IF f = "authors" THEN Truthy(b.f[f]) ELSE b.f[f].t # "none"}
        core == [f \in shown |->
                    IF f = "publication_date" THEN Str(PyStr(b.f[f])) ELSE b.f[f]]
    IN Update(core, b.raw_metadata)

(***************************************************************************)
(* The raw records given to Book: every dict of at most MaxKeys keys, each  *)
(* key holding one of the values sampled for it, and some values that are   *)
(* no dict.                                                                 *)
(***************************************************************************)
TitleSamples ==
    {None, Str(<<>>), Str(<<" ", " ">>), Str(<<" ", "T", "h", "e", " ", " ", "H", "o", "b", "b", "i", "t", " ">>), Str(<<"a">>), PyInt(0), PyInt(5), List(<<>>)}
NameSamples == {None, Str(<<>>), Str(<<" ", " ">>), Str(<<"D", "u", "n", "e">>), Str(<<" ", "n", " ", " ", "m">>), PyInt(0)}
AuthorsSamples ==
    {None, Str(<<>>), Str(<<"A", ",", " ", "B", ";", " ", "C">>), Str(<<"J", ".", "R", ".", "R", ".", " ", "T", "o", "l", "k", "i", "e", "n">>), List(<<Str(<<" ", " ", "A", "n", "n", "a", " ", " ">>), Str(<<>>)>>), List(<<>>), PyInt(7),
     Dict(<<>>)}
TextSamples == {None, Str(<<" ", " ">>), Str(<<"a">>), Str(<<"a", " ", "\t", " ", "b">>), PyInt(9), Bool(FALSE), Dict(<<Str(<<"k">>), PyInt(1)>>)}
DateSamples ==
    {None, Str(<<>>), Str(<<" ", " ">>), Str(<<"2", "0", "2", "0", "-", "0", "2", "-", "2", "9">>), Str(<<"2", "0", "2", "1", "-", "0", "2", "-", "2", "9">>), Str(<<" ", "2", "0", "2", "0", "/", "1", "/", "2">>), Str(<<"0", "1", "/", "0", "2", "/", "2", "0", "2", "0">>), Str(<<"s", "o", "o", "n">>), Date(2020, 1, 2), PyInt(2020)}
PagesSamples ==
    {None, Str(<<>>), Str(<<"3", "1", "0">>), Str(<<"0">>), Str(<<"-", "5">>), Str(<<"a", "b", "c">>), PyInt(12), PyInt(0), Float(37), Inf(1), NaN,
     List(<<PyInt(3)>>), Bool(TRUE)}
PriceSamples ==
    {None, Str(<<>>), Str(<<"9", ".", "5">>), Str(<<"-", "1">>), Str(<<"a", "b", "c">>), PyInt(3), Float(-5), Inf(1), Inf(-1), NaN, Dict(<<>>)}
ExtraSamples == {None, Float(45), Str(<<"a">>), List(<<Str(<<"a">>)>>), Dict(<<>>)}

ExtraKeys == {"rating", "raw_metadata", "Title"}
Keys == core_fields \cup ExtraKeys

Samples(k) ==
    CASE k = "title" -> TitleSamples
      [] k = "name" -> NameSamples
      [] k = "authors" -> AuthorsSamples
      [] k = "publication_date" -> DateSamples
      [] k = "pages" -> PagesSamples
      [] k = "price" -> PriceSamples
      [] k \in ExtraKeys -> ExtraSamples
      [] k \in {"isbn", "publisher"} -> TextSamples
      [] OTHER -> {None, Str(<<" ", " ">>), Str(<<"a">>)}

RECURSIVE MapsOver(_)
MapsOver(K) ==
    IF K = {} THEN {EmptyMap}
    ELSE LET k == CHOOSE x \in K : TRUE
         IN {Put(m, k, v) : m \in MapsOver(K \ {k}), v \in Samples(k)}

RECURSIVE KeySets(_)
KeySets(n) ==
    IF n = 0 THEN {{}}
    ELSE KeySets(n - 1) \cup {K \cup {k} : K \in KeySets(n - 1), k \in Keys}

NonMappingRecords ==
    {NotMapping(v) : v \in {None, Str(<<"n", "o", "t", "-", "a", "n", "-", "o", "b", "j", "e", "c", "t">>), PyInt(5), List(<<>>)}}

(***************************************************************************)
(* The state after import: lines 383-385 have registered the book classes.  *)
(***************************************************************************)
Entry(name, cls) == [name |-> name, cls |-> cls]
Rule(func, cls) == [func |-> func, cls |-> cls]
Call(name, arg, cls, d, ret) == [name |-> name, arg |-> arg, cls |-> cls, raw |-> d, ret |-> ret]
NoCall == Call("import", "-", "-", NotMapping(None), "None")

RegistryAfterImport ==
    /\ entity_classes = <<Entry("Book", "Book")>>
    /\ collection_classes = <<Entry("BookCollection", "BookCollection")>>
    /\ detection_rules = <<Rule("_detect_book_format", "BookCollection")>>
    /\ op = NoCall
    /\ regs = 0
    /\ firstAt = [c \in {"BookCollection"} |-> 0]
    /\ lastEntity = [n \in {"Book"} |-> "Book"]
    /\ lastCollection = [n \in {"BookCollection"} |-> "BookCollection"]

NoOutcome == [exc |-> "unset", val |-> None]
NoCollection == [status |-> "none", books |-> <<>>]

BookIdle ==
    /\ raw = NotMapping(None)
    /\ pc = "idle"
    /\ book = NoBook
    /\ metadata = EmptyMap
    /\ pages_in = None
    /\ pages_out = NoOutcome

CollectionIdle ==
    /\ doc = NotMapping(None)
    /\ collection = NoCollection
    /\ entities = <<>>

(***************************************************************************)
(* Building one Book from a raw record and reading its metadata.            *)
(***************************************************************************)
InitBook ==
    /\ RegistryAfterImport
    /\ CollectionIdle
    /\ \/ \E K \in KeySets(MaxKeys) : \E m \in MapsOver(K) : raw = Mapping(m)
       \/ raw \in NonMappingRecords
    /\ pc = "start"
    /\ book = NoBook
    /\ metadata = EmptyMap
    /\ pages_in = None
    /\ pages_out = NoOutcome

Construct ==
    /\ pc = "start"
    /\ book' = BookConstruct(raw)
    /\ pc' = IF book'.status = "ok" THEN "constructed" ELSE "failed"
    /\ UNCHANGED <<raw, metadata, pages_in, pages_out>>
    /\ UNCHANGED registryVars
    /\ UNCHANGED collectionVars

GetAllMetadata ==
    /\ pc = "constructed"
    /\ metadata' = get_all_metadata(book)
    /\ pc' = "done"
    /\ UNCHANGED <<raw, book, pages_in, pages_out>>
    /\ UNCHANGED registryVars
    /\ UNCHANGED collectionVars

NextBook == Construct \/ GetAllMetadata

SpecBook == InitBook /\ [][NextBook]_vars

\* the same run over the raw records whose keys are all fields of handle_string_fields
InitStrings ==
    /\ RegistryAfterImport
    /\ CollectionIdle
    /\ \E K \in KeySets(MaxKeys) :
          /\ K \subseteq StringFields
          /\ \E m \in MapsOver(K) : raw = Mapping(m)
    /\ pc = "start"
    /\ book = NoBook
    /\ metadata = EmptyMap
    /\ pages_in = None
    /\ pages_out = NoOutcome

SpecStrings == InitStrings /\ [][NextBook]_vars

(***************************************************************************)
(* BookCollection.  A top-level object is [kind, m, v] like a raw record;   *)
(* the value under one of its keys is an array of raw records or a value    *)
(* that is no array.                                                        *)
(***************************************************************************)
Array(items) == [kind |-> "array", items |-> items, v |-> None]
NotArray(v) == [kind |-> "other", items |-> <<>>, v |-> v]

FailedCollection(e) == [status |-> e, books |-> <<>>]

RECURSIVE KeepOk(_)
KeepOk(bs) ==
    IF bs = <<>> THEN <<>>
    ELSE (IF Head(bs).status = "ok" THEN <<Head(bs)>> ELSE <<>>) \o KeepOk(Tail(bs))

BookCollectionSkipInvalid(d) ==
    IF d.kind # "mapping" THEN FailedCollection("ValidationError")
    ELSE IF "books" \notin DOMAIN d.m THEN FailedCollection("ValidationError")
    ELSE IF d.m["books"].kind # "array" THEN FailedCollection("ValidationError")
    ELSE LET items == d.m["books"].items
         IN [status |-> "ok", books |-> KeepOk([i \in 1..Len(items) |-> BookConstruct(items[i])])]

\* BookCollection(**d) / BookCollection.model_validate(d): books: list[Book] is
\* required, and every element is validated as a Book
BookCollectionConstruct(d) ==
    IF d.kind # "mapping" THEN FailedCollection("ValidationError")
    ELSE IF "books" \notin DOMAIN d.m THEN FailedCollection("ValidationError")
    ELSE IF d.m["books"].kind # "array" THEN FailedCollection("ValidationError")
    ELSE LET items == d.m["books"].items
             bs == [i \in 1..Len(items) |-> BookConstruct(items[i])]
             raised == {i \in 1..Len(items) : bs[i].status \notin {"ok", "ValidationError"}}
             first == CHOOSE i \in raised : \A j \in raised : i <= j
         IN IF raised # {} THEN FailedCollection(bs[first].status)
            ELSE IF \E i \in 1..Len(items) : bs[i].status # "ok"
            THEN FailedCollection("ValidationError")
            ELSE [status |-> "ok", books |-> bs]

get_entities(c) == c.books

ElementSamples ==
    {Mapping(EmptyMap),
     Mapping([k \in {"title", "pages", "rating"} |->
                 CASE k = "title" -> Str(<<" ", "T", "h", "e", " ", " ", "H", "o", "b", "b", "i", "t", " ">>) [] k = "pages" -> Str(<<"3", "1", "0">>) [] OTHER -> Float(45)]),
     Mapping([k \in {"pages"} |-> Str(<<"a", "b", "c">>)]),
     Mapping([k \in {"title"} |-> Str(<<" ", " ">>)]),
     Mapping([k \in {"name", "isbn"} |-> Str(<<"a">>)]),
     NotMapping(Str(<<"n", "o", "t", "-", "a", "n", "-", "o", "b", "j", "e", "c", "t">>)),
     Mapping([k \in {"pages"} |-> Inf(1)]),
     NotMapping(PyInt(5)),
     NotMapping(None)}

RECURSIVE SeqsUpTo(_, _)
SeqsUpTo(S, n) ==
    IF n = 0 THEN {<<>>}
    ELSE SeqsUpTo(S, n - 1) \cup {Append(q, x) : q \in SeqsUpTo(S, n - 1), x \in S}

BooksValues ==
    {Array(items) : items \in SeqsUpTo(ElementSamples, MaxBooks)}
        \cup {NotArray(v) : v \in {None, Str(<<"a">>), PyInt(3), Dict(<<>>)}}

Docs ==
    {Mapping([k \in {"books"} |-> b]) : b \in BooksValues}
        \cup {Mapping([k \in {"books", "albums"} |-> IF k = "books" THEN b ELSE Array(<<>>)]) :
                 b \in BooksValues}
        \cup {Mapping([k \in {"albums"} |-> b]) : b \in BooksValues}
        \cup {Mapping(EmptyMap), NotMapping(None), NotMapping(List(<<>>)), NotMapping(Str(<<"a">>))}

InitCollection ==
    /\ RegistryAfterImport
    /\ raw = NotMapping(None)
    /\ book = NoBook
    /\ metadata = EmptyMap
    /\ pages_in = None
    /\ pages_out = NoOutcome
    /\ doc \in Docs
    /\ pc = "start"
    /\ collection = NoCollection
    /\ entities = <<>>

ParseCollection ==
    /\ pc = "start"
    /\ collection' = BookCollectionConstruct(doc)
    /\ pc' = IF collection'.status = "ok" THEN "parsed" ELSE "failed"
    /\ UNCHANGED <<doc, entities, raw, book, metadata, pages_in, pages_out>>
    /\ UNCHANGED registryVars

GetEntities ==
    /\ pc = "parsed"
    /\ entities' = get_entities(collection)
    /\ pc' = "done"
    /\ UNCHANGED <<doc, collection, raw, book, metadata, pages_in, pages_out>>
    /\ UNCHANGED registryVars

NextCollection == ParseCollection \/ GetEntities

SpecCollection == InitCollection /\ [][NextCollection]_vars

(***************************************************************************)
(* The pages normalizer on its own.                                         *)
(***************************************************************************)
PagesAlphabet == {"0", "1", "3", "-", "+", " ", "a"}

PagesInputs ==
    {Str(q) : q \in SeqsUpTo(PagesAlphabet, MaxStrLen)}
        \cup {PyInt(i) : i \in -MaxInt..MaxInt}
        \cup {Float(i) : i \in -MaxInt..MaxInt}
        \cup {None, Str(<<"3", "1", "0">>), Str(<<"a", "b", "c">>), Inf(1), Inf(-1), NaN, Bool(TRUE), Bool(FALSE), List(<<>>),
              List(<<PyInt(3)>>), Dict(<<>>), Date(2020, 1, 2)}

InitPages ==
    /\ RegistryAfterImport
    /\ CollectionIdle
    /\ raw = NotMapping(None)
    /\ book = NoBook
    /\ metadata = EmptyMap
    /\ pc = "start"
    /\ pages_in \in PagesInputs
    /\ pages_out = NoOutcome

HandlePages ==
    /\ pc = "start"
    /\ pages_out' = handle_pages_field(pages_in)
    /\ pc' = IF pages_out'.exc = "none" THEN "done" ELSE "raised"
    /\ UNCHANGED <<pages_in, raw, book, metadata>>
    /\ UNCHANGED registryVars
    /\ UNCHANGED collectionVars

NextPages == HandlePages

SpecPages == InitPages /\ [][NextPages]_vars

(***************************************************************************)
(* EntityTypeRegistry.  A class is named by a string, None by "None".  A    *)
(* dict is the sequence of its entries in insertion order.                  *)
(***************************************************************************)
HasKey(d, name) == \E i \in 1..Len(d) : d[i].name = name

\* d.get(name)
DictGet(d, name) ==
    IF HasKey(d, name) THEN d[CHOOSE i \in 1..Len(d) : d[i].name = name].cls ELSE "None"

DictSetFirstWins(d, name, cls) ==
    IF HasKey(d, name) THEN d ELSE Append(d, Entry(name, cls))

\* d[name] = cls: a key already held keeps its place and takes the new value
DictSet(d, name, cls) ==
    IF HasKey(d, name)
    THEN [i \in 1..Len(d) |-> IF d[i].name = name THEN Entry(name, cls) ELSE d[i]]
    ELSE Append(d, Entry(name, cls))

get_entity_class(name) == DictGet(entity_classes, name)
get_collection_class(name) == DictGet(collection_classes, name)

get_default_collection_class ==
    IF collection_classes # <<>> THEN collection_classes[1].cls ELSE "None"

BooksChars == <<"b", "o", "o", "k", "s">>

IsSubstring(x, s) == \E i \in 1..(Len(s) - Len(x) + 1) : SubSeq(s, i, i + Len(x) - 1) = x

\* "key" in raw_data and isinstance(raw_data["key"], list), for raw_data of any type:
\* a list or str that holds the key cannot be indexed by it, and None or a number
\* is not iterable
HasListUnder(d, key, chars) ==
    CASE d.kind = "mapping" -> Returns(Bool(key \in DOMAIN d.m /\ d.m[key].kind = "array"))
      [] d.v.t = "list" ->
            IF \E i \in 1..Len(d.v.l) : d.v.l[i] = Str(chars)
            THEN Raises("TypeError") ELSE Returns(Bool(FALSE))
      [] d.v.t = "str" ->
            IF IsSubstring(chars, d.v.s) THEN Raises("TypeError") ELSE Returns(Bool(FALSE))
      [] OTHER -> Raises("TypeError")

detect_book_format(d) == HasListUnder(d, "books", BooksChars)

\* the detection functions callers register besides the module's own: one of the same
\* shape for albums, lambda d: True, and lambda d: d["kind"] == "x"
DetectionFuncs == {"_detect_album_format", "always_true", "by_kind"}

CallDetection(func, d) ==
    CASE func = "_detect_book_format" -> detect_book_format(d)
      [] func = "_detect_album_format" -> HasListUnder(d, "albums", <<"a", "l", "b", "u", "m", "s">>)
      [] func = "always_true" -> Returns(Bool(TRUE))
      [] func = "by_kind" ->
            IF d.kind = "mapping" /\ "kind" \in DOMAIN d.m
            THEN Returns(Bool(FALSE)) ELSE Raises(IF d.kind = "mapping" THEN "KeyError" ELSE "TypeError")

\* the loop of detect_collection_class over the rules left
RECURSIVE DetectFrom(_, _)
DetectFrom(rules, d) ==
    IF rules = <<>> THEN "None"
    ELSE LET r == CallDetection(Head(rules).func, d)
         IN IF r.exc = "none" /\ Truthy(r.val) THEN Head(rules).cls
            ELSE DetectFrom(Tail(rules), d)

RECURSIVE DetectLastFrom(_, _)
DetectLastFrom(rules, d) ==
    IF rules = <<>> THEN "None"
    ELSE LET r == CallDetection(rules[Len(rules)].func, d)
         IN IF r.exc = "none" /\ Truthy(r.val) THEN rules[Len(rules)].cls
            ELSE DetectLastFrom(SubSeq(rules, 1, Len(rules) - 1), d)

DetectLastMatch(d) == DetectLastFrom(detection_rules, d)

DetectOrDefault(d) ==
    IF DetectFrom(detection_rules, d) = "None" THEN get_default_collection_class
    ELSE DetectFrom(detection_rules, d)

detect_collection_class(d) == DetectFrom(detection_rules, d)

EntityNames == {"Book", "Album"}
EntityClasses == {"Book", "Album"}
CollectionNames == {"BookCollection", "AlbumCollection"}
CollectionClasses == {"BookCollection", "AlbumCollection", "MyBooks"}
RuleClasses == {"AlbumCollection", "MyBooks"}
QueryNames == EntityNames \cup CollectionNames \cup {"Missing"}

DetectDocs ==
    {Mapping([k \in {"books"} |-> Array(<<Mapping(EmptyMap)>>)]),
     Mapping([k \in {"books"} |-> NotArray(Str(<<"a">>))]),
     Mapping([k \in {"albums"} |-> Array(<<>>)]),
     NotMapping(None),
     NotMapping(List(<<Str(BooksChars)>>))}

InitRegistry ==
    /\ RegistryAfterImport
    /\ BookIdle
    /\ CollectionIdle

RegisterEntityClass(name, cls) ==
    /\ regs < MaxRegs
    /\ entity_classes' = DictSet(entity_classes, name, cls)
    /\ lastEntity' = Put(lastEntity, name, cls)
    /\ regs' = regs + 1
    /\ op' = Call("register_entity_class", name, cls, NotMapping(None), "None")
    /\ UNCHANGED <<collection_classes, detection_rules, firstAt, lastCollection>>
    /\ UNCHANGED bookVars
    /\ UNCHANGED collectionVars

RegisterCollectionClass(name, cls) ==
    /\ regs < MaxRegs
    /\ collection_classes' = DictSet(collection_classes, name, cls)
    /\ lastCollection' = Put(lastCollection, name, cls)
    /\ firstAt' = IF cls \in DOMAIN firstAt THEN firstAt ELSE Put(firstAt, cls, regs + 1)
    /\ regs' = regs + 1
    /\ op' = Call("register_collection_class", name, cls, NotMapping(None), "None")
    /\ UNCHANGED <<entity_classes, detection_rules, lastEntity>>
    /\ UNCHANGED bookVars
    /\ UNCHANGED collectionVars

RegisterDetectionRule(func, cls) ==
    /\ Len(detection_rules) < MaxRules
    /\ detection_rules' = Append(detection_rules, Rule(func, cls))
    /\ op' = Call("register_detection_rule", func, cls, NotMapping(None), "None")
    /\ UNCHANGED <<entity_classes, collection_classes, regs, firstAt, lastEntity, lastCollection>>
    /\ UNCHANGED bookVars
    /\ UNCHANGED collectionVars

Query(call) ==
    /\ op' = call
    /\ UNCHANGED <<entity_classes, collection_classes, detection_rules, regs, firstAt,
                   lastEntity, lastCollection>>
    /\ UNCHANGED bookVars
    /\ UNCHANGED collectionVars

DetectCollectionClass(d) ==
    Query(Call("detect_collection_class", "-", "-", d, detect_collection_class(d)))

GetEntityClass(name) ==
    Query(Call("get_entity_class", name, "-", NotMapping(None), get_entity_class(name)))

GetCollectionClass(name) ==
    Query(Call("get_collection_class", name, "-", NotMapping(None), get_collection_class(name)))

GetDefaultCollectionClass ==
    Query(Call("get_default_collection_class", "-", "-", NotMapping(None),
               get_default_collection_class))

NextRegistry ==
    \/ \E name \in EntityNames, cls \in EntityClasses : RegisterEntityClass(name, cls)
    \/ \E name \in CollectionNames, cls \in CollectionClasses : RegisterCollectionClass(name, cls)
    \/ \E func \in DetectionFuncs, cls \in RuleClasses : RegisterDetectionRule(func, cls)
    \/ \E d \in DetectDocs : DetectCollectionClass(d)
    \/ \E name \in EntityNames \cup {"Missing"} : GetEntityClass(name)
    \/ \E name \in CollectionNames \cup {"Missing"} : GetCollectionClass(name)
    \/ GetDefaultCollectionClass

Spec == InitRegistry /\ [][NextRegistry]_vars

(***************************************************************************)
(* Properties of the registry, under Spec.                                  *)
(***************************************************************************)
\* rule i's predicate returns a true value on d (it does not raise)
RuleMatches(i, d) ==
    LET r == CallDetection(detection_rules[i].func, d)
    IN r.exc = "none" /\ Truthy(r.val)

RuleRaises(i, d) == CallDetection(detection_rules[i].func, d).exc # "none"

MatchingRules(d) == {i \in 1..Len(detection_rules) : RuleMatches(i, d)}

\* C1: detect_collection_class returns the class of the earliest-registered rule whose
\* predicate returns true; a rule that raises is passed over, and a later matching
\* rule never beats an earlier one.
C1_FirstMatchingRuleWins ==
    (op.name = "detect_collection_class" /\ MatchingRules(op.raw) # {}) =>
        \E i \in MatchingRules(op.raw) :
            /\ \A j \in MatchingRules(op.raw) : i <= j
            /\ op.ret = detection_rules[i].cls

C1_Witness ==
    /\ op.name = "detect_collection_class"
    /\ Len(detection_rules) = 3
    /\ RuleRaises(1, op.raw)
    /\ RuleMatches(2, op.raw)
    /\ RuleMatches(3, op.raw)
    /\ detection_rules[2].cls # detection_rules[3].cls
    /\ op.ret = detection_rules[2].cls

\* C2: when no rule's predicate returns true (each returns false or raises),
\* detect_collection_class returns None, whatever the default collection class is.
C2_NoMatchReturnsNone ==
    (op.name = "detect_collection_class" /\ MatchingRules(op.raw) = {}) => op.ret = "None"

C2_Witness ==
    /\ op.name = "detect_collection_class"
    /\ MatchingRules(op.raw) = {}
    /\ \E i \in 1..Len(detection_rules) : RuleRaises(i, op.raw)
    /\ \E i \in 1..Len(detection_rules) : ~RuleRaises(i, op.raw)
    /\ get_default_collection_class # "None"
    /\ op.ret = "None"

MostRecent(history, name) == IF name \in DOMAIN history THEN history[name] ELSE "None"

C8_LookupIsMostRecent ==
    /\ \A name \in QueryNames :
          /\ get_entity_class(name) = MostRecent(lastEntity, name)
          /\ get_collection_class(name) = MostRecent(lastCollection, name)
    /\ op.name = "get_entity_class" => op.ret = MostRecent(lastEntity, op.arg)
    /\ op.name = "get_collection_class" => op.ret = MostRecent(lastCollection, op.arg)

C8_RegistrationFrame ==
    /\ (regs' # regs /\ op'.name = "register_entity_class") =>
          /\ DictGet(entity_classes', op'.arg) = op'.cls
          /\ \A name \in QueryNames \ {op'.arg} : get_entity_class(name)' = get_entity_class(name)
          /\ collection_classes' = collection_classes
          /\ detection_rules' = detection_rules
    /\ (regs' # regs /\ op'.name = "register_collection_class") =>
          /\ DictGet(collection_classes', op'.arg) = op'.cls
          /\ \A name \in QueryNames \ {op'.arg} :
                get_collection_class(name)' = get_collection_class(name)
          /\ entity_classes' = entity_classes
          /\ detection_rules' = detection_rules

\* C8: get_entity_class(n) and get_collection_class(n) return the class of the most
\* recent registration under n (None if there is none), and a registration changes only
\* its own name's entry in its own mapping, not the other mapping or the rule list.
C8_LastRegistrationWins == [](C8_LookupIsMostRecent) /\ [][C8_RegistrationFrame]_vars

C8_Witness ==
    /\ op.name = "get_collection_class"
    /\ op.arg = "BookCollection"
    /\ op.ret = "MyBooks"
    /\ get_entity_class("Album") = "Album"
    /\ Len(detection_rules) = 1

\* the collection classes the registry holds
HeldCollectionClasses == {collection_classes[i].cls : i \in 1..Len(collection_classes)}

\* C9: get_default_collection_class returns, among the collection classes the registry
\* holds, the one whose registration call happened earliest, and None exactly when no
\* collection class has been registered.
C9_DefaultIsEarliestRegistered ==
    /\ get_default_collection_class = "None" <=> HeldCollectionClasses = {}
    /\ HeldCollectionClasses # {} =>
          \A c \in HeldCollectionClasses : firstAt[get_default_collection_class] <= firstAt[c]

(***************************************************************************)
(* Properties of Book, under SpecBook (C4 and C5 under SpecStrings).        *)
(***************************************************************************)
\* the fourteen core-field names, as the specification lists them
CoreFieldNames ==
    {"name", "title", "authors", "isbn", "publication_date", "pages", "price",
     "description", "cover_image_url", "purchase_url", "publisher", "genre",
     "language", "format"}

\* C3: the overflow mapping of a constructed Book is the raw mapping restricted to the
\* keys outside the core-field set: every such key is there with its value unchanged,
\* and no core-field name is a key of it.
C3_OverflowIsNonCoreRestriction ==
    book.status = "ok" =>
        /\ DOMAIN book.raw_metadata = DOMAIN raw.m \ CoreFieldNames
        /\ \A k \in DOMAIN raw.m \ CoreFieldNames : book.raw_metadata[k] = raw.m[k]
        /\ DOMAIN book.raw_metadata \cap CoreFieldNames = {}

C3_Witness ==
    /\ book.status = "ok"
    /\ "raw_metadata" \in DOMAIN book.raw_metadata
    /\ book.raw_metadata["raw_metadata"] = Float(45)
    /\ "publisher" \in DOMAIN raw.m

\* C4: for every raw mapping, Book construction succeeds whatever the values under
\* the core-field keys; it fails only when the raw record is not a mapping.
C4_ConstructionNeverFailsOnMapping ==
    pc # "start" => (book.status = "ok" <=> raw.kind = "mapping")

NormalizedText(v) == Str(sub_spaces(strip(v.s)))
UsableText(data, k) == k \in DOMAIN data /\ data[k].t = "str" /\ strip(data[k].s) # <<>>
NoText(data, k) ==
    k \notin DOMAIN data \/ data[k].t = "none" \/ (data[k].t = "str" /\ strip(data[k].s) = <<>>)

\* C5: a title that is non-empty after trimming gives the name (normalized); with the
\* title absent, null, empty or whitespace-only the name is the supplied name when that
\* is usable and "Untitled Book" when it is not; the name is always a non-empty string.
C5_TitleNameReconciliation ==
    (pc # "start" /\ raw.kind = "mapping") =>
        /\ book.status = "ok"
        /\ book.f["name"].t = "str" /\ book.f["name"].s # <<>>
        /\ UsableText(raw.m, "title") => book.f["name"] = NormalizedText(raw.m["title"])
        /\ (NoText(raw.m, "title") /\ UsableText(raw.m, "name")) =>
              book.f["name"] = NormalizedText(raw.m["name"])
        /\ (NoText(raw.m, "title") /\ NoText(raw.m, "name")) =>
              book.f["name"] = Str(UntitledBook)

NavigationAndName == {"name", "publisher", "genre", "language", "format"}
DescriptiveFields ==
    {"title", "authors", "isbn", "publication_date", "pages", "price", "description",
     "cover_image_url", "purchase_url"}
HasValue(b, f) == IF f = "authors" THEN b.f[f].l # <<>> ELSE b.f[f] # None

\* C7: get_all_metadata returns exactly the descriptive core fields that have a value
\* (publication_date as a string) together with the whole overflow mapping; never the
\* keys name, publisher, genre, language, format; no core key is overridden by overflow.
C7_MetadataView ==
    pc = "done" =>
        /\ DOMAIN metadata =
              {f \in DescriptiveFields : HasValue(book, f)} \cup DOMAIN book.raw_metadata
        /\ \A f \in DescriptiveFields :
              HasValue(book, f) =>
                 IF f = "publication_date"
                 THEN metadata[f].t = "str" /\ metadata[f].s = PyStr(book.f[f])
                 ELSE metadata[f] = book.f[f]
        /\ \A k \in DOMAIN book.raw_metadata : metadata[k] = book.raw_metadata[k]
        /\ DOMAIN metadata \cap NavigationAndName = {}

C7_Witness ==
    /\ pc = "done"
    /\ book.f["publisher"] = Str(<<"a">>)
    /\ "rating" \in DOMAIN metadata

(***************************************************************************)
(* Properties of BookCollection, under SpecCollection.                      *)
(***************************************************************************)
BooksItems == doc.m["books"].items

WellFormedDoc ==
    /\ doc.kind = "mapping"
    /\ "books" \in DOMAIN doc.m
    /\ doc.m["books"].kind = "array"
    /\ \A i \in 1..Len(BooksItems) : BooksItems[i].kind = "mapping"

C10_PagesNullOrPositive ==
    pc # "start" =>
        /\ pages_out.exc = "none"
        /\ pages_out.val = None \/ (pages_out.val.t = "int" /\ pages_out.val.n > 0)

====
